---- MODULE Spec2Model ----
(***************************************************************************)
(* Model of server.py (src/api_integration_pipeline.ipynb, lines 40-70):   *)
(* a FastAPI application with one module-level dict `library` and three    *)
(* handlers, healthcheck, get_user and create_user.                        *)
(*                                                                         *)
(* The application runs in one uvicorn process (Dockerfile CMD, line 124,  *)
(* no --workers), i.e. on one event loop.  Several requests are in flight  *)
(* at once: a request is received, its path parameter or JSON body is      *)
(* validated against the handler's signature, the handler runs, and the    *)
(* response is delivered.  The three handlers are `async def` bodies with  *)
(* no `await`, so each handler body is one step of the event loop; the     *)
(* steps of different requests interleave freely.                          *)
(***************************************************************************)
EXTENDS Integers, Sequences, FiniteSets, TLC

\* Bounds of the model.
NumRequests == 2      \* request slots that may be in flight at once
MaxCreates == 2       \* create requests admitted over one run

\* library = {111: {...}}  (line 47)
SeedId == 111

Requests == 1..NumRequests

\* JSON values a client may put in a field of the POST body: a string, a
\* number, null, or nothing at all (the key is missing).
Str(s) == [t |-> "str", v |-> s]
Num(s) == [t |-> "num", v |-> s]
Null == [t |-> "null", v |-> ""]
Absent == [t |-> "absent", v |-> ""]

Body(n, d, s) == [name |-> n, date |-> d, service |-> s]

\* Bodies with three strings, some of them empty.
TextBodies ==
  { Body(Str("Bob"), Str("2025-01-01"), Str("X")),
    Body(Str(""), Str("2025-01-01"), Str("X")),
    Body(Str("Bob"), Str("2025-01-01"), Str("")) }

\* Bodies with a field that is missing or is not a string.
MalformedBodies ==
  { Body(Num("5"), Str("2025-01-01"), Str("X")),
    Body(Str("Bob"), Absent, Str("X")),
    Body(Str("Bob"), Str("2025-01-01"), Null) }

Bodies == TextBodies \cup MalformedBodies
NoBody == [name |-> Absent, date |-> Absent, service |-> Absent]

\* Path segments a client may put in GET /user/{userid}: integers around the
\* keys the store can hold, and one segment that is not an integer.
IntPath(n) == [isint |-> TRUE, n |-> n]
BadPath == [isint |-> FALSE, n |-> 0]
UserIds == {0} \cup (SeedId..(SeedId + MaxCreates + 1))
Paths == {IntPath(n) : n \in UserIds} \cup {BadPath}

\* Python's None, as returned by dict.get for a missing key.
None == [isNone |-> TRUE]
NoResponse == [status |-> 0, body |-> None]

VARIABLES
  library,    \* the module-level dict: id -> {name, date, service}
  pc,         \* per request: "idle", "received", "ready", "done"
  req,        \* per request: [kind, path, body]
  resp,       \* per request: [status, body]
  createLog,  \* the bodies create_user has returned, in order
  raced       \* has create_user run while another create was scheduled?

vars == <<library, pc, req, resp, createLog, raced>>

\* library = {111: {"name": "Alice", "date": "2025-04-25", "service": "DemoService"}}
SeedRecord == [name |-> "Alice", date |-> "2025-04-25", service |-> "DemoService"]

InitLibrary == [k \in {SeedId} |-> SeedRecord]

Init ==
  /\ library = InitLibrary
  /\ pc = [r \in Requests |-> "idle"]
  /\ req = [r \in Requests |-> [kind |-> "none", path |-> BadPath, body |-> NoBody]]
  /\ resp = [r \in Requests |-> NoResponse]
  /\ createLog = <<>>
  /\ raced = FALSE

----------------------------------------------------------------------------
\* Pure parts of the handlers.

\* Variant: `date` declared optional, so a body without it is accepted.
UserInValid_optionalDate(body) ==
  /\ body.name.t = "str"
  /\ body.date.t \in {"str", "absent"}
  /\ body.service.t = "str"

\* Variant: only `name` is declared.
UserInValid_nameOnly(body) == body.name.t = "str"

\* class UserIn(BaseModel): name: str; date: str; service: str
UserInValid(body) ==
  /\ body.name.t = "str"
  /\ body.date.t = "str"
  /\ body.service.t = "str"

\* user.dict()
UserDict(body) ==
  [name |-> body.name.v, date |-> body.date.v, service |-> body.service.v]

\* max(library.keys())
MaxKey(lib) == CHOOSE k \in DOMAIN lib : \A j \in DOMAIN lib : j <= k

\* Variant: len(library) + 1.
NewId_len(lib) == Cardinality(DOMAIN lib) + 1

\* Variant: min(library.keys()) + 1.
NewId_min(lib) == (CHOOSE k \in DOMAIN lib : \A j \in DOMAIN lib : k <= j) + 1

\* new_id = max(library.keys()) + 1
NewId(lib) == MaxKey(lib) + 1

\* Variant: library = {new_id: user.dict()}, which drops the other entries.
DictSet_replace(lib, k, v) == [j \in {k} |-> v]

\* library[new_id] = user.dict()
DictSet(lib, k, v) ==
  [j \in (DOMAIN lib) \cup {k} |-> IF j = k THEN v ELSE lib[j]]

\* Variant: library.get(userid, library[111]), a default instead of None.
DictGet_seedDefault(lib, k) == IF k \in DOMAIN lib THEN lib[k] ELSE lib[SeedId]

\* library.get(userid)
DictGet(lib, k) == IF k \in DOMAIN lib THEN lib[k] ELSE None

\* Variant: `if user:`, the test inverted.
Falsy_inverted(user) == ~(user = None \/ DOMAIN user = {})

\* `not user`: None and the empty dict are falsy, any other dict is truthy.
Falsy(user) == user = None \/ DOMAIN user = {}

\* return {"status": "healthy"}
HealthPayload == [status |-> "healthy"]

\* raise HTTPException(status_code=404, detail="User not found")
NotFound == [status |-> 404, body |-> [detail |-> "User not found"]]

\* The framework's answer to a request that does not fit the signature.
Unprocessable == [status |-> 422, body |-> [detail |-> "validation error"]]

\* return {"id": new_id, **user.dict()}
CreatedBody(id, d) ==
  [id |-> id, name |-> d.name, date |-> d.date, service |-> d.service]

\* Variant: return {"id": userid, **user}.
GetUserResult_withId(lib, userid) ==
  IF userid \in DOMAIN lib
    THEN [status |-> 200,
          body |-> [id |-> userid, name |-> lib[userid].name,
                    date |-> lib[userid].date, service |-> lib[userid].service]]
    ELSE [status |-> 404, body |-> [detail |-> "User not found"]]

\* The result of get_user(userid) on a given store.
GetUserResult(lib, userid) ==
  LET user == DictGet(lib, userid)
  IN IF Falsy(user) THEN NotFound ELSE [status |-> 200, body |-> user]

----------------------------------------------------------------------------
\* Requests arriving.

CreatesAdmitted ==
  Len(createLog)
    + Cardinality({r \in Requests :
                     req[r].kind = "create" /\ pc[r] \in {"received", "ready"}})

ReceiveHealth(r) ==
  /\ pc[r] = "idle"
  /\ pc' = [pc EXCEPT ![r] = "received"]
  /\ req' = [req EXCEPT ![r] = [kind |-> "health", path |-> BadPath, body |-> NoBody]]
  /\ UNCHANGED <<library, resp, createLog, raced>>

ReceiveGet(r) ==
  /\ pc[r] = "idle"
  /\ \E p \in Paths :
       req' = [req EXCEPT ![r] = [kind |-> "get", path |-> p, body |-> NoBody]]
  /\ pc' = [pc EXCEPT ![r] = "received"]
  /\ UNCHANGED <<library, resp, createLog, raced>>

ReceiveCreate(r) ==
  /\ pc[r] = "idle"
  /\ CreatesAdmitted < MaxCreates
  /\ \E b \in Bodies :
       req' = [req EXCEPT ![r] = [kind |-> "create", path |-> BadPath, body |-> b]]
  /\ pc' = [pc EXCEPT ![r] = "received"]
  /\ UNCHANGED <<library, resp, createLog, raced>>

\* Does the request fit the signature of its handler?
\*   healthcheck()            no parameters
\*   get_user(userid: int)    the path segment must be an integer
\*   create_user(user: UserIn)
Fits(q) ==
  CASE q.kind = "health" -> TRUE
    [] q.kind = "get"    -> q.path.isint
    [] q.kind = "create" -> UserInValid(q.body)
    [] OTHER             -> FALSE

\* The request fits: the handler is scheduled.
Accept(r) ==
  /\ pc[r] = "received"
  /\ Fits(req[r])
  /\ pc' = [pc EXCEPT ![r] = "ready"]
  /\ UNCHANGED <<library, req, resp, createLog, raced>>

\* The request does not fit: 422, and the handler is never called.
Reject(r) ==
  /\ pc[r] = "received"
  /\ ~Fits(req[r])
  /\ pc' = [pc EXCEPT ![r] = "done"]
  /\ resp' = [resp EXCEPT ![r] = Unprocessable]
  /\ UNCHANGED <<library, req, createLog, raced>>

----------------------------------------------------------------------------
\* The handlers.

\* Variant: a health check that reports on the store, healthy only while
\* the store holds nothing but the seeded record.
healthcheck_storeDependent(r) ==
  /\ pc[r] = "ready"
  /\ req[r].kind = "health"
  /\ resp' = [resp EXCEPT ![r] =
                IF Cardinality(DOMAIN library) = 1
                  THEN [status |-> 200, body |-> [status |-> "healthy"]]
                  ELSE [status |-> 200, body |-> [status |-> "degraded"]]]
  /\ pc' = [pc EXCEPT ![r] = "done"]
  /\ UNCHANGED <<library, req, createLog, raced>>

\* async def healthcheck()
healthcheck(r) ==
  /\ pc[r] = "ready"
  /\ req[r].kind = "health"
  /\ resp' = [resp EXCEPT ![r] = [status |-> 200, body |-> HealthPayload]]
  /\ pc' = [pc EXCEPT ![r] = "done"]
  /\ UNCHANGED <<library, req, createLog, raced>>

\* Variant: user = library.pop(userid, None), which removes what it reads.
get_user_pop(r) ==
  /\ pc[r] = "ready"
  /\ req[r].kind = "get"
  /\ resp' = [resp EXCEPT ![r] =
                IF req[r].path.n \in DOMAIN library
                  THEN [status |-> 200, body |-> library[req[r].path.n]]
                  ELSE [status |-> 404, body |-> [detail |-> "User not found"]]]
  /\ library' = [k \in (DOMAIN library) \ {req[r].path.n} |-> library[k]]
  /\ pc' = [pc EXCEPT ![r] = "done"]
  /\ UNCHANGED <<req, createLog, raced>>

\* async def get_user(userid: int)
get_user(r) ==
  /\ pc[r] = "ready"
  /\ req[r].kind = "get"
  /\ resp' = [resp EXCEPT ![r] = GetUserResult(library, req[r].path.n)]
  /\ pc' = [pc EXCEPT ![r] = "done"]
  /\ UNCHANGED <<library, req, createLog, raced>>

\* async def create_user(user: UserIn)
\* max() of an empty dict raises ValueError, which the framework turns into
\* a 500 response.
create_user(r) ==
  /\ pc[r] = "ready"
  /\ req[r].kind = "create"
  /\ IF DOMAIN library = {}
       THEN /\ resp' = [resp EXCEPT ![r] =
                          [status |-> 500, body |-> [detail |-> "Internal Server Error"]]]
            /\ UNCHANGED <<library, createLog>>
       ELSE LET new_id == NewId(library)
                d == UserDict(req[r].body)
            IN /\ library' = DictSet(library, new_id, d)
               /\ resp' = [resp EXCEPT ![r] =
                             [status |-> 200, body |-> CreatedBody(new_id, d)]]
               /\ createLog' = Append(createLog, CreatedBody(new_id, d))
  /\ raced' = (raced \/ \E o \in Requests \ {r} :
                           req[o].kind = "create" /\ pc[o] = "ready")
  /\ pc' = [pc EXCEPT ![r] = "done"]
  /\ UNCHANGED req

\* The response is sent and the slot is free for the next request.
Deliver(r) ==
  /\ pc[r] = "done"
  /\ pc' = [pc EXCEPT ![r] = "idle"]
  /\ resp' = [resp EXCEPT ![r] = NoResponse]
  /\ req' = [req EXCEPT ![r] = [kind |-> "none", path |-> BadPath, body |-> NoBody]]
  /\ UNCHANGED <<library, createLog, raced>>

Next ==
  \E r \in Requests :
    \/ ReceiveHealth(r)
    \/ ReceiveGet(r)
    \/ ReceiveCreate(r)
    \/ Accept(r)
    \/ Reject(r)
    \/ healthcheck(r)
    \/ get_user(r)
    \/ create_user(r)
    \/ Deliver(r)

Spec == Init /\ [][Next]_vars

----------------------------------------------------------------------------
\* Steps of the handlers, as seen from outside: request r goes from "ready"
\* to "done".

HandlerStep(r, kind) ==
  /\ pc[r] = "ready"
  /\ req[r].kind = kind
  /\ pc'[r] = "done"

LogIds == {createLog[i].id : i \in 1..Len(createLog)}

Fields(c) == [name |-> c.name, date |-> c.date, service |-> c.service]

----------------------------------------------------------------------------
\* C1: every create_user call answers 200 with an id that is one more than
\* a key of the store and greater than every key the store held before the
\* call (so it is the maximum key plus one), and inserts under that id.
C1_NewIdIsMaxPlusOne ==
  [][\A r \in Requests :
       HandlerStep(r, "create") =>
         /\ resp'[r].status = 200
         /\ (resp'[r].body.id - 1) \in DOMAIN library
         /\ \A k \in DOMAIN library : k < resp'[r].body.id
         /\ resp'[r].body.id \in DOMAIN library']_vars

\* A second create has answered: its id is two above the seeded id.
C1_Witness ==
  \E r \in Requests :
    /\ pc[r] = "done"
    /\ req[r].kind = "create"
    /\ resp[r].status = 200
    /\ resp[r].body.id = SeedId + 2

\* C2: the ids returned by create_user are pairwise distinct and every
\* returned record is in the store under its id, whatever the interleaving
\* of the requests in flight: no two creates get the same id and no insert
\* overwrites another.
C2_DistinctIdsNoLostUpdate ==
  /\ \A i, j \in 1..Len(createLog) :
       i # j => createLog[i].id # createLog[j].id
  /\ \A i \in 1..Len(createLog) :
       /\ createLog[i].id \in DOMAIN library
       /\ library[createLog[i].id] = Fields(createLog[i])
  /\ Cardinality(DOMAIN library) = 1 + Len(createLog)

\* Two creates that were in flight together have both answered.
C2_Witness ==
  /\ raced
  /\ Len(createLog) >= 2
  /\ \A r \in Requests : ~(req[r].kind = "create" /\ pc[r] = "ready")

\* C3 as claimed: a get_user for an id that create_user has returned answers
\* with the three fields of that create plus the id.
C3_Original ==
  [][\A r \in Requests : \A i \in 1..Len(createLog) :
       (HandlerStep(r, "get") /\ req[r].path.n = createLog[i].id) =>
         /\ resp'[r].status = 200
         /\ resp'[r].body = createLog[i]]_vars

\* C3 amended: a get_user for an id that create_user has returned, with any
\* creates and reads in between, answers 200 with exactly the three fields
\* name, date and service of that create; the id is not part of the answer.
C3_RoundTrip ==
  [][\A r \in Requests : \A i \in 1..Len(createLog) :
       (HandlerStep(r, "get") /\ req[r].path.n = createLog[i].id) =>
         /\ resp'[r].status = 200
         /\ resp'[r].body = Fields(createLog[i])
         /\ DOMAIN resp'[r].body = {"name", "date", "service"}]_vars

\* A get of the first created id has answered after a later create.
C3_Witness ==
  \E r \in Requests :
    /\ pc[r] = "done"
    /\ req[r].kind = "get"
    /\ Len(createLog) >= 2
    /\ req[r].path.n = createLog[1].id
    /\ resp[r].status = 200
    /\ library[SeedId + 2] # library[SeedId + 1]

\* C4: a get_user that has answered for an integer id that is not 111 and
\* was never returned by a create answered 404 "User not found".
C4_NeverInsertedIsNotFound ==
  \A r \in Requests :
    (/\ pc[r] = "done"
     /\ req[r].kind = "get"
     /\ req[r].path.isint
     /\ req[r].path.n # 111
     /\ req[r].path.n \notin LogIds)
    => /\ resp[r].status = 404
       /\ resp[r].body = [detail |-> "User not found"]

\* A get of an id above every key has answered while the store holds
\* created records.
C4_Witness ==
  \E r \in Requests :
    /\ pc[r] = "done"
    /\ req[r].kind = "get"
    /\ req[r].path.isint
    /\ req[r].path.n > SeedId + Len(createLog)
    /\ Len(createLog) >= 1
    /\ resp[r].status = 404

\* C5: a get_user call for a key of the store answers 200 with the record
\* stored under that key, never 404; and a get_user(111) answers with the
\* seeded Alice record.
C5_PresentIsReturned ==
  [][\A r \in Requests :
       (HandlerStep(r, "get") /\ req[r].path.n \in DOMAIN library) =>
         /\ resp'[r].status = 200
         /\ resp'[r].body = library[req[r].path.n]
         /\ (req[r].path.n = 111 =>
               resp'[r].body =
                 [name |-> "Alice", date |-> "2025-04-25", service |-> "DemoService"])]_vars

\* get_user(111) has answered 200 before any create.
C5_Witness ==
  \E r \in Requests :
    /\ pc[r] = "done"
    /\ req[r].kind = "get"
    /\ req[r].path.n = 111
    /\ resp[r].status = 200
    /\ createLog = <<>>

\* C6: a health check that has answered answered 200 {"status": "healthy"},
\* whatever the store holds.
C6_HealthAlwaysHealthy ==
  \A r \in Requests :
    (pc[r] = "done" /\ req[r].kind = "health") =>
      resp[r] = [status |-> 200, body |-> [status |-> "healthy"]]

\* A health check has answered after all the creates of the run.
C6_Witness ==
  \E r \in Requests :
    /\ pc[r] = "done"
    /\ req[r].kind = "health"
    /\ Len(createLog) >= 2

\* C7: a healthcheck or get_user call leaves the store as it was, and the
\* store changes only in a create_user call.
C7_OnlyCreateMutates ==
  [][/\ \A r \in Requests :
          (HandlerStep(r, "health") \/ HandlerStep(r, "get")) =>
            library' = library
     /\ (library' # library => \E r \in Requests : HandlerStep(r, "create"))]_vars

\* A get that failed with 404 and a get that succeeded have both answered
\* while the store holds a created record.
C7_Witness ==
  /\ Len(createLog) >= 1
  /\ \E r1, r2 \in Requests :
       /\ pc[r1] = "done" /\ req[r1].kind = "get" /\ resp[r1].status = 404
       /\ pc[r2] = "done" /\ req[r2].kind = "get" /\ resp[r2].status = 200

\* C8: a create request whose body has a missing or non-text field is
\* answered with a 4xx status without create_user running: the store and
\* the ids handed out are unchanged.
C8_MalformedRejected ==
  [][\A r \in Requests :
       (/\ req[r].kind = "create"
        /\ req[r].body \in MalformedBodies
        /\ pc[r] = "received"
        /\ pc'[r] # "received") =>
         /\ pc'[r] = "done"
         /\ resp'[r].status \in 400..499
         /\ library' = library
         /\ createLog' = createLog]_vars

\* A malformed create has been answered 422 while another create was
\* accepted.
C8_Witness ==
  \E r \in Requests :
    /\ pc[r] = "done"
    /\ req[r].kind = "create"
    /\ req[r].body \in MalformedBodies
    /\ resp[r].status = 422
    /\ Len(createLog) >= 1

\* C9 as claimed: every record in the store has a non-empty name and a
\* non-empty service.
C9_Original ==
  \A k \in DOMAIN library :
    library[k].name # "" /\ library[k].service # ""

\* C9 amended: every record in the store is the seeded record or the three
\* text fields of a body whose name, date and service are all present and
\* strings; name and service may be the empty string.
C9_RecordsAreText ==
  \A k \in DOMAIN library :
    \/ k = 111 /\ library[k].name = "Alice"
    \/ \E b \in TextBodies :
         library[k] = [name |-> b.name.v, date |-> b.date.v, service |-> b.service.v]

\* The store holds a record with an empty name and one with an empty service.
C9_Witness ==
  /\ \E k \in DOMAIN library : library[k].name = ""
  /\ \E k \in DOMAIN library : library[k].service = ""

\* C10: the store is never empty and always maps 111 to the seeded record,
\* and no create_user call fails.
C10_SeedStays ==
  /\ DOMAIN library # {}
  /\ 111 \in DOMAIN library
  /\ library[111] = [name |-> "Alice", date |-> "2025-04-25", service |-> "DemoService"]
  /\ \A r \in Requests :
       (pc[r] = "done" /\ req[r].kind = "create" /\ req[r].body \in TextBodies) =>
         resp[r].status = 200

\* All the creates of the run have been inserted next to the seeded record.
C10_Witness ==
  /\ Cardinality(DOMAIN library) >= 3
  /\ 111 \in DOMAIN library
  /\ \E r \in Requests :
       pc[r] = "done" /\ req[r].kind = "create" /\ resp[r].status = 200

====
